---- MODULE Spec2Model ----
(***************************************************************************)
(* Model of scripts/mumble-ice.py: the Murmur ICE JSON-RPC sidecar.        *)
(*                                                                         *)
(* The process is one thread of control.  Its state is the position of     *)
(* main(), main's locals `communicator` and `server`, the Ice communicator *)
(* object behind them, the three standard streams, and the exit status.    *)
(* The remote Murmur server, standard input and the environment are the    *)
(* inputs: every value they hand to the program is drawn from a small set. *)
(***************************************************************************)
EXTENDS Integers, Sequences, FiniteSets, TLC

VARIABLES
    pc,            \* position of main(): see PcValues
    communicator,  \* main's local `communicator`: "None" or "comm"
    ice,           \* the Ice communicator object: "absent", "open", "destroyed"
    destroys,      \* number of communicator.destroy() calls made
    meta,          \* main's local `meta`: "None" or "meta"
    server,        \* main's local `server`: "None" or a server proxy
    stdout,        \* lines delivered to standard output, each [line, req]
    obuf,          \* lines held by sys.stdout's buffer after a failed flush
    outFault,      \* number of coming flushes of sys.stdout that fail
    stderr,        \* diagnostics written to standard error
    exitStatus,    \* Running, or the status the process exited with
    lines,         \* the lines read from standard input so far
    cur,           \* the request whose remote call is in flight (pc = "call")
    calls          \* the remote procedures invoked so far, each [req, server, proc, args]

vars == <<pc, communicator, ice, destroys, meta, server, stdout, obuf, outFault,
          stderr, exitStatus, lines, cur, calls>>

(***************************************************************************)
(* Bounds of the model.                                                    *)
(***************************************************************************)
MaxLines == 2      \* lines read from standard input in one run
MaxFaults == 2     \* failing flushes of standard output in one run
MaxRequests == 1   \* lines read in one run that draws its requests from ParamLines
MaxACLs == 2       \* entries of the `acls` array of a setACL request

Running == -1
NoRequest == [n |-> 0]

PcValues == {"config", "create", "proxy", "getServer", "ready", "await", "call", "exited"}

(***************************************************************************)
(* JSON values, as json.loads returns them and json.dumps takes them.      *)
(* A string that the program may hand to int() is a sequence of one-       *)
(* character strings, so that the conversion is computed, not looked up.   *)
(***************************************************************************)
Null == [t |-> "null"]
JInt(n) == [t |-> "int", n |-> n]
JBool(b) == [t |-> "bool", b |-> b]
JStr(s) == [t |-> "str", s |-> s]
JList(l) == [t |-> "list", l |-> l]
JObj(d) == [t |-> "dict", d |-> d]
EmptyDict == JObj(<<>>)

\* what line.strip() leaves of a blank line, and a text json.loads rejects
Empty == [t |-> "empty"]
Garbage == [t |-> "garbage"]

(***************************************************************************)
(* Python's operations on those values.  An evaluation yields Ok(v) or     *)
(* Raise(type, msg): the exception's class name and its str().             *)
(***************************************************************************)
Ok(v) == [ok |-> TRUE, v |-> v]
Raise(type, msg) == [ok |-> FALSE, exc |-> [type |-> type, msg |-> msg]]

TypeName(v) ==
    CASE v.t = "null" -> "NoneType"
      [] v.t = "int" -> "int"
      [] v.t = "bool" -> "bool"
      [] v.t = "str" -> "str"
      [] v.t = "list" -> "list"
      [] v.t = "dict" -> "dict"

Digits == <<"0", "1", "2", "3", "4", "5", "6", "7", "8", "9">>
IsDigit(c) == \E i \in 1..10 : Digits[i] = c
DigitVal(c) == (CHOOSE i \in 1..10 : Digits[i] = c) - 1

\* the characters of s as one text
RECURSIVE Text(_)
Text(s) == IF s = <<>> THEN "" ELSE Head(s) \o Text(Tail(s))

\* the value of a non-empty sequence of digits
RECURSIVE DigitsVal(_)
DigitsVal(s) ==
    IF s = <<>> THEN 0 ELSE 10 * DigitsVal(SubSeq(s, 1, Len(s) - 1)) + DigitVal(s[Len(s)])

\* str(n) for an integer n
RECURSIVE NatText(_)
NatText(n) == IF n < 10 THEN Digits[n + 1] ELSE NatText(n \div 10) \o Digits[(n % 10) + 1]
IntText(n) == IF n < 0 THEN "-" \o NatText(0 - n) ELSE NatText(n)

\* s without the blanks at its ends
RECURSIVE Trim(_)
Trim(s) ==
    IF s # <<>> /\ Head(s) = " " THEN Trim(Tail(s))
    ELSE IF s # <<>> /\ s[Len(s)] = " " THEN Trim(SubSeq(s, 1, Len(s) - 1))
    ELSE s

\* int(v); of a string: blanks around it dropped, a sign, then digits (the
\* strings of the model hold no underscore)
PyInt(v) ==
    CASE v.t = "int" -> Ok(v.n)
      [] v.t = "bool" -> Ok(IF v.b THEN 1 ELSE 0)
      [] v.t = "str" ->
            LET text == Trim(v.s)
                neg == text # <<>> /\ Head(text) = "-"
                signed == text # <<>> /\ Head(text) \in {"-", "+"}
                body == IF signed THEN Tail(text) ELSE text
            IN  IF body # <<>> /\ \A i \in 1..Len(body) : IsDigit(body[i])
                THEN Ok(IF neg THEN 0 - DigitsVal(body) ELSE DigitsVal(body))
                ELSE Raise("ValueError",
                           "invalid literal for int() with base 10: '" \o Text(v.s) \o "'")
      [] OTHER ->
            Raise("TypeError",
                  "int() argument must be a string, a bytes-like object or a real number, not '"
                  \o TypeName(v) \o "'")

\* bool(v)
PyBool(v) ==
    CASE v.t = "null" -> FALSE
      [] v.t = "bool" -> v.b
      [] v.t = "int" -> v.n # 0
      [] v.t = "str" -> v.s # <<>>
      [] v.t = "list" -> v.l # <<>>
      [] v.t = "dict" -> DOMAIN v.d # {}

\* str(v), for the scalar values
PyStr(v) ==
    CASE v.t = "str" -> Text(v.s)
      [] v.t = "int" -> IntText(v.n)
      [] v.t = "bool" -> IF v.b THEN "True" ELSE "False"
      [] v.t = "null" -> "None"
      [] v.t = "list" -> "[...]"
      [] v.t = "dict" -> "{...}"

\* v[key]
Subscript(v, key) ==
    CASE v.t = "dict" ->
            IF key \in DOMAIN v.d THEN Ok(v.d[key])
            ELSE Raise("KeyError", "'" \o key \o "'")
      [] v.t = "list" -> Raise("TypeError", "list indices must be integers or slices, not str")
      [] v.t = "str" -> Raise("TypeError", "string indices must be integers, not 'str'")
      [] OTHER -> Raise("TypeError", "'" \o TypeName(v) \o "' object is not subscriptable")

\* v.get(key, default)
Get(v, key, default) ==
    IF v.t = "dict"
    THEN Ok(IF key \in DOMAIN v.d THEN v.d[key] ELSE default)
    ELSE Raise("AttributeError", "'" \o TypeName(v) \o "' object has no attribute 'get'")

\* key in v; a key is longer than any string of the model, so it is no substring
Contains(v, key) ==
    CASE v.t = "dict" -> Ok(key \in DOMAIN v.d)
      [] v.t = "list" -> Ok(FALSE)
      [] v.t = "str" -> Ok(FALSE)
      [] OTHER -> Raise("TypeError", "argument of type '" \o TypeName(v) \o "' is not iterable")

\* the items `for a in v` visits; the keys of a dict and the characters of a
\* string are strings
Iterate(v) ==
    CASE v.t = "list" -> Ok(v.l)
      [] v.t = "dict" -> Ok([i \in 1..Cardinality(DOMAIN v.d) |-> JStr(<<>>)])
      [] v.t = "str" -> Ok([i \in 1..Len(v.s) |-> JStr(<<v.s[i]>>)])
      [] OTHER -> Raise("TypeError", "'" \o TypeName(v) \o "' object is not iterable")

(***************************************************************************)
(* dispatch(server, method, params), up to the remote invocation: either   *)
(* the exception raised before any remote procedure is invoked, or         *)
(* Ok([proc, args]), the one remote procedure invoked and its arguments.   *)
(***************************************************************************)
Methods == {"registerUser", "unregisterUser", "updateRegistration", "getRegisteredUsers",
            "setACL", "getACL", "getRegistration"}

Invoke(proc, args) == Ok([proc |-> proc, args |-> args])

\* IntParam without the int(): the parameter passed on as the request gives it
IntParamAsGiven(params, key) == Subscript(params, key)

\* int(params[key])
IntParam(params, key) ==
    LET raw == Subscript(params, key)
    IN  IF raw.ok THEN PyInt(raw.v) ELSE raw

DispatchRegisterUser(params) ==
    LET username == Subscript(params, "username")
        password == Subscript(params, "password")
    IN  IF ~username.ok THEN username
        ELSE IF ~password.ok THEN password
        ELSE Invoke("registerUser",
                    [info |-> [UserName |-> username.v, UserPassword |-> password.v]])

DispatchUnregisterUser(params) ==
    LET userId == IntParam(params, "userId")
    IN  IF ~userId.ok THEN userId
        ELSE Invoke("unregisterUser", [id |-> userId.v])

\* the info mapping of updateRegistration: only the keys present in `updates`
UpdateInfo(updates) ==
    LET hasName == Contains(updates, "username")
        hasPass == Contains(updates, "password")
    IN  IF ~hasName.ok THEN hasName
        ELSE IF ~hasPass.ok THEN hasPass
        ELSE Ok([k \in (IF hasName.v THEN {"UserName"} ELSE {})
                        \cup (IF hasPass.v THEN {"UserPassword"} ELSE {})
                 |-> IF k = "UserName" THEN updates.d["username"] ELSE updates.d["password"]])

DispatchUpdateRegistration(params) ==
    LET updates == Get(params, "updates", EmptyDict)
        info == UpdateInfo(updates.v)
        userId == IntParam(params, "userId")
    IN  IF ~updates.ok THEN updates
        ELSE IF ~info.ok THEN info
        ELSE IF ~userId.ok THEN userId
        ELSE Invoke("updateRegistration", [id |-> userId.v, info |-> info.v])

DispatchGetRegisteredUsers(params) ==
    LET filter == Get(params, "filter", JStr(<<>>))
    IN  IF ~filter.ok THEN filter
        ELSE Invoke("getRegisteredUsers", [filter |-> filter.v])

\* one Murmur.ACL built from one entry of `acls`
BuildACL(a) ==
    LET applyHere == Get(a, "applyHere", JBool(TRUE))
        userid == PyInt(Get(a, "userid", JInt(-1)).v)
        allow == PyInt(Get(a, "allow", JInt(0)).v)
        deny == PyInt(Get(a, "deny", JInt(0)).v)
    IN  IF ~applyHere.ok THEN applyHere
        ELSE IF ~userid.ok THEN userid
        ELSE IF ~allow.ok THEN allow
        ELSE IF ~deny.ok THEN deny
        ELSE Ok([applyHere |-> PyBool(applyHere.v),
                 applySubs |-> PyBool(Get(a, "applySubs", JBool(TRUE)).v),
                 inherited |-> PyBool(Get(a, "inherited", JBool(FALSE)).v),
                 userid |-> userid.v,
                 group |-> PyStr(Get(a, "group", JStr(<<>>)).v),
                 allow |-> allow.v,
                 deny |-> deny.v])

\* BuildACLs putting each new entry in front of the list
RECURSIVE BuildACLsNewestFirst(_, _)
BuildACLsNewestFirst(items, acls) ==
    IF items = <<>> THEN Ok(acls)
    ELSE LET acl == BuildACL(Head(items))
         IN  IF ~acl.ok THEN acl ELSE BuildACLsNewestFirst(Tail(items), <<acl.v>> \o acls)

\* the loop over `acls`: each entry appended in turn, the first failure raised
RECURSIVE BuildACLs(_, _)
BuildACLs(items, acls) ==
    IF items = <<>> THEN Ok(acls)
    ELSE LET acl == BuildACL(Head(items))
         IN  IF ~acl.ok THEN acl ELSE BuildACLs(Tail(items), Append(acls, acl.v))

DispatchSetACL(params) ==
    LET given == Get(params, "acls", JList(<<>>))
        items == Iterate(given.v)
        acls == BuildACLs(items.v, <<>>)
        channelId == IntParam(params, "channelId")
    IN  IF ~given.ok THEN given
        ELSE IF ~items.ok THEN items
        ELSE IF ~acls.ok THEN acls
        ELSE IF ~channelId.ok THEN channelId
        ELSE Invoke("setACL",
                    [id |-> channelId.v, acls |-> acls.v, groups |-> <<>>,
                     inherit |-> PyBool(Get(params, "inherit", JBool(TRUE)).v)])

DispatchGetACL(params) ==
    LET channelId == IntParam(params, "channelId")
    IN  IF ~channelId.ok THEN channelId
        ELSE Invoke("getACL", [id |-> channelId.v])

DispatchGetRegistration(params) ==
    LET userId == IntParam(params, "userId")
    IN  IF ~userId.ok THEN userId
        ELSE Invoke("getRegistration", [id |-> userId.v])

\* DispatchUnknown falling back to the listing instead of raising
DispatchUnknownLists(method) == Invoke("getRegisteredUsers", [filter |-> JStr(<<>>)])

\* lines 137-138
DispatchUnknown(method) == Raise("ValueError", "Unknown method: " \o method)

Dispatch(method, params) ==
    CASE method = "registerUser" -> DispatchRegisterUser(params)
      [] method = "unregisterUser" -> DispatchUnregisterUser(params)
      [] method = "updateRegistration" -> DispatchUpdateRegistration(params)
      [] method = "getRegisteredUsers" -> DispatchGetRegisteredUsers(params)
      [] method = "setACL" -> DispatchSetACL(params)
      [] method = "getACL" -> DispatchGetACL(params)
      [] method = "getRegistration" -> DispatchGetRegistration(params)
      [] OTHER -> DispatchUnknown(method)

(***************************************************************************)
(* The remote Murmur server: what a remote procedure may answer.           *)
(***************************************************************************)
JText(x) == [t |-> "str", x |-> x]   \* a JSON string the program only passes on

MurmurException(type) == [type |-> type, msg |-> ""]
ConnectionLost == [type |-> "ConnectionLostException", msg |-> "Ice.ConnectionLostException"]

UserProcs == {"registerUser", "unregisterUser", "updateRegistration", "getRegistration"}
ChannelProcs == {"setACL", "getACL"}

RemoteACL == [applyHere |-> TRUE, applySubs |-> FALSE, inherited |-> TRUE,
              userid |-> -1, group |-> "admin", allow |-> 1, deny |-> 0]

\* the values a remote procedure may return
RemoteReturns(proc) ==
    CASE proc = "registerUser" -> {7}
      [] proc \in {"unregisterUser", "updateRegistration", "setACL"} -> {Null}
      [] proc = "getRegisteredUsers" -> {[i \in {7} |-> "alice"]}
      [] proc = "getACL" -> {[acls |-> <<RemoteACL>>, groups |-> <<"g">>, inherit |-> TRUE]}
      [] proc = "getRegistration" ->
            {[info |-> [k \in {0, 9} |-> "v"], intKeys |-> b] : b \in BOOLEAN}

\* the exceptions a remote procedure may raise
RemoteRaises(proc) ==
    {MurmurException("InvalidSecretException"), ConnectionLost}
    \cup (IF proc \in UserProcs THEN {MurmurException("InvalidUserException")} ELSE {})
    \cup (IF proc \in ChannelProcs THEN {MurmurException("InvalidChannelException")} ELSE {})

(***************************************************************************)
(* dispatch, after the remote procedure returned `ret`: the result value,  *)
(* or the exception raised while shaping it.                               *)
(***************************************************************************)
name_map == <<"UserName", "UserEmail", "UserComment", "UserHash", "UserPassword",
              "UserLastActive", "UserKDFIterations">>

\* name_map.get(int(k), str(k))
FieldName(k) == IF k \in 0..6 THEN name_map[k + 1] ELSE IntText(k)

ACLToJson(a) ==
    JObj([applyHere |-> JBool(a.applyHere), applySubs |-> JBool(a.applySubs),
          inherited |-> JBool(a.inherited), userid |-> JInt(a.userid),
          group |-> JText(a.group), allow |-> JInt(a.allow), deny |-> JInt(a.deny)])

Shape(proc, ret) ==
    CASE proc = "registerUser" -> Ok(JInt(ret))
      [] proc \in {"unregisterUser", "updateRegistration", "setACL"} -> Ok(Null)
      [] proc = "getRegisteredUsers" ->
            Ok(JObj([key \in {IntText(i) : i \in DOMAIN ret}
                     |-> JText(ret[CHOOSE i \in DOMAIN ret : IntText(i) = key])]))
      [] proc = "getACL" ->
            Ok(JObj([acls |-> JList([i \in 1..Len(ret.acls) |-> ACLToJson(ret.acls[i])]),
                     inherit |-> JBool(ret.inherit)]))
      [] proc = "getRegistration" ->
            IF DOMAIN ret.info # {} /\ ~ret.intKeys
            THEN Raise("TypeError",
                       "int() argument must be a string, a bytes-like object or a real number, not 'UserInfo'")
            ELSE Ok(JObj([key \in {FieldName(k) : k \in DOMAIN ret.info}
                          |-> JText(ret.info[CHOOSE k \in DOMAIN ret.info : FieldName(k) = key])]))

(***************************************************************************)
(* Standard output.  print(text, flush=True) appends the line to the       *)
(* stream's buffer and flushes it; a flush that fails raises OSError and   *)
(* leaves the buffer as it is, so a later flush delivers the line too.     *)
(***************************************************************************)
Out == [stdout |-> stdout, obuf |-> obuf, outFault |-> outFault]

\* PrintFlush delivering the newest line ahead of what was delivered before
PrintFlushNewestFirst(st, item) ==
    LET buffered == Append(st.obuf, item)
    IN  IF st.outFault = 0
        THEN [ok |-> TRUE, stdout |-> buffered \o st.stdout, obuf |-> <<>>, outFault |-> 0]
        ELSE [ok |-> FALSE, stdout |-> st.stdout, obuf |-> buffered,
              outFault |-> st.outFault - 1]

PrintFlush(st, item) ==
    LET buffered == Append(st.obuf, item)
    IN  IF st.outFault = 0
        THEN [ok |-> TRUE, stdout |-> st.stdout \o buffered, obuf |-> <<>>, outFault |-> 0]
        ELSE [ok |-> FALSE, stdout |-> st.stdout, obuf |-> buffered,
              outFault |-> st.outFault - 1]

WriteError == [type |-> "OSError", msg |-> "[Errno 5] Input/output error"]

ReadyLine == [ready |-> TRUE]
ResultLine(req_id, result) == [id |-> req_id, result |-> result]
ErrorLine(req_id, message) == [id |-> req_id, error |-> message]

(***************************************************************************)
(* One request, lines 168-183 of main().                                   *)
(***************************************************************************)
\* strip removing the newline only: a line of blanks stays a text, and no JSON
stripNewlineOnly(line) == IF line.pad > 0 /\ line.doc = Empty THEN Garbage ELSE line.doc

\* line.strip(): the text of the line without the blanks around it
strip(line) == line.doc

\* Loads taking a text that is no JSON for a request to list the users
LoadsLenient(doc) ==
    Ok(IF doc = Garbage THEN JObj([method |-> "getRegisteredUsers"]) ELSE doc)

\* json.loads(line)
Loads(doc) ==
    IF doc = Garbage
    THEN Raise("JSONDecodeError", "Expecting value: line 1 column 1 (char 0)")
    ELSE Ok(doc)

\* Request with req_id assigned only once dispatch has returned
RequestIdAfterDispatch(doc) ==
    LET req == Loads(doc)
        id == Get(req.v, "id", "")
        method == Get(req.v, "method", "")
        params == Get(req.v, "params", EmptyDict)
        outcome == Dispatch(method.v, params.v)
    IN  IF ~req.ok THEN [req_id |-> "", outcome |-> req]
        ELSE IF ~id.ok THEN [req_id |-> "", outcome |-> id]
        ELSE [req_id |-> IF outcome.ok THEN id.v ELSE "", outcome |-> outcome]

\* lines 168-175 up to the remote invocation: req_id as it stands when the
\* try block is left, and what dispatch did
Request(doc) ==
    LET req == Loads(doc)
        id == Get(req.v, "id", "")
        method == Get(req.v, "method", "")
        params == Get(req.v, "params", EmptyDict)
    IN  IF ~req.ok THEN [req_id |-> "", outcome |-> req]
        ELSE IF ~id.ok THEN [req_id |-> "", outcome |-> id]
        ELSE [req_id |-> id.v, outcome |-> Dispatch(method.v, params.v)]

\* ErrorMessage with the last except clause only: str(e) of every exception
ErrorMessageStr(exc) == exc.msg

\* the except clauses of lines 178-183: the error text of an exception (the
\* dash of the InvalidSecret text is U+2014 in the source)
ErrorMessage(exc) ==
    CASE exc.type \in {"InvalidUserException", "InvalidChannelException"} ->
            "Murmur: " \o exc.type
      [] exc.type = "InvalidSecretException" ->
            "Murmur: InvalidSecret - check MUMBLE_ICE_SECRET"
      [] OTHER -> exc.msg

\* Respond without the last except clause: an exception that is no Murmur
\* exception leaves the inner try statement
RespondMurmurOnly(st, n, req_id, outcome) ==
    LET first == IF outcome.ok
                 THEN PrintFlush(st, [line |-> ResultLine(req_id, outcome.v), req |-> n])
                 ELSE [ok |-> FALSE, stdout |-> st.stdout, obuf |-> st.obuf,
                       outFault |-> st.outFault]
        exc == IF outcome.ok THEN WriteError ELSE outcome.exc
        caught == exc.type \in {"InvalidUserException", "InvalidChannelException",
                                "InvalidSecretException"}
        second == PrintFlush(first, [line |-> ErrorLine(req_id, ErrorMessage(exc)),
                                     req |-> n, exc |-> exc])
    IN  IF first.ok THEN [out |-> first, raised |-> FALSE, exc |-> exc]
        ELSE IF ~caught THEN [out |-> first, raised |-> TRUE, exc |-> exc]
        ELSE [out |-> second, raised |-> ~second.ok, exc |-> WriteError]

\* lines 176-183: the response written for request n, given what dispatch
\* yielded; an error line is tagged with the exception it reports.  `raised` tells whether an exception, `exc`, leaves the inner try
\* statement
Respond(st, n, req_id, outcome) ==
    LET first == IF outcome.ok
                 THEN PrintFlush(st, [line |-> ResultLine(req_id, outcome.v), req |-> n])
                 ELSE [ok |-> FALSE, stdout |-> st.stdout, obuf |-> st.obuf,
                       outFault |-> st.outFault]
        exc == IF outcome.ok THEN WriteError ELSE outcome.exc
        second == PrintFlush(first, [line |-> ErrorLine(req_id, ErrorMessage(exc)),
                                     req |-> n, exc |-> exc])
    IN  IF first.ok THEN [out |-> first, raised |-> FALSE, exc |-> exc]
        ELSE [out |-> second, raised |-> ~second.ok, exc |-> WriteError]

(***************************************************************************)
(* The inputs of a run.                                                    *)
(***************************************************************************)
Secrets == {"", "s3cret"}
ServerProxies == {"s/1 -t:tcp -h mumble -p 6502"}

Str42 == JStr(<<"4", "2">>)
StrAbc == JStr(<<"a", "b", "c">>)
Name == JStr(<<"b", "o", "b">>)

Obj(id, method, params) == JObj([id |-> id, method |-> method, params |-> params])

GoodACL == JObj([userid |-> JInt(5), allow |-> Str42])
GroupACL == JObj([group |-> JStr(<<"a">>), deny |-> JInt(1), applySubs |-> JBool(FALSE)])
BadACL == JObj([userid |-> StrAbc])

\* the texts standard input may carry, after strip()
Docs ==
    { Garbage,
      JList(<<JInt(1)>>),
      JInt(5),
      Obj("1", "getRegisteredUsers", EmptyDict),
      Obj("2", "unregisterUser", JObj([userId |-> Str42])),
      Obj("3", "frobnicate", EmptyDict),
      Obj("5", "frobnicate", Null),
      Obj("4", "getACL", JObj([channelId |-> JInt(999)])),
      JObj([method |-> "getRegisteredUsers"]),
      JObj([id |-> "5"]),
      Obj("1", "registerUser", JObj([username |-> Name, password |-> Name])),
      Obj("2", "registerUser", JObj([username |-> Name])),
      Obj("3", "updateRegistration", JObj([userId |-> JInt(7)])),
      Obj("4", "updateRegistration",
          JObj([userId |-> JInt(7), updates |-> JObj([password |-> Name])])),
      Obj("1", "setACL", JObj([channelId |-> JInt(3), acls |-> JList(<<GoodACL, GroupACL>>)])),
      Obj("2", "setACL", JObj([channelId |-> JInt(3), acls |-> JList(<<GoodACL, BadACL>>)])),
      Obj("3", "getRegistration", JObj([userId |-> JInt(7)])),
      Obj("4", "getRegistration", JObj([userId |-> StrAbc])),
      Obj("5", "unregisterUser", Null) }

\* the lines standard input may carry: a text with or without blanks around it
Lines == [pad : {0, 1}, doc : {Empty}] \cup [pad : {0}, doc : Docs]

(***************************************************************************)
(* Requests to the known methods over a range of `params`: each parameter  *)
(* absent, well-formed or malformed.                                       *)
(***************************************************************************)
Absent == [t |-> "absent"]

\* the JSON objects with, for each key of a record of `space`, the value the
\* record gives it, and without the keys it gives Absent
ObjectsOf(space) ==
    {JObj([k \in {key \in DOMAIN c : c[key] # Absent} |-> c[k]]) : c \in space}

IdValues == {Absent, JInt(7), Str42, StrAbc, Null, JBool(TRUE), JList(<<>>),
             JStr(<<" ", "+", "7">>), JStr(<<"-", "4", "2">>), JStr(<<>>), JStr(<<"-">>)}

BadAllow == JObj([userid |-> JInt(1), allow |-> Null])
BadDeny == JObj([deny |-> JStr(<<"1", "x">>)])
ACLEntries == {GoodACL, GroupACL, BadACL, BadAllow, BadDeny}

\* the arrays of at most MaxACLs entries
AclsArrays == {JList(l) : l \in UNION {[1..k -> ACLEntries] : k \in 0..MaxACLs}}

SomeGroups == JList(<<JObj([name |-> JStr(<<"g">>)])>>)

ParamsOf(method) ==
    CASE method = "registerUser" ->
            ObjectsOf([username : {Absent, Name}, password : {Absent, Name}])
      [] method \in {"unregisterUser", "getRegistration"} -> ObjectsOf([userId : IdValues])
      [] method = "getACL" -> ObjectsOf([channelId : IdValues])
      [] method = "updateRegistration" ->
            ObjectsOf([userId : {Absent, JInt(7), Str42, StrAbc},
                       updates : {Absent, Null, EmptyDict, JObj([password |-> Name]),
                                  JObj([username |-> Name, password |-> Name])}])
      [] method = "getRegisteredUsers" -> ObjectsOf([filter : {Absent, Name}])
      [] method = "setACL" ->
            ObjectsOf([channelId : {Str42}, acls : AclsArrays])
            \cup ObjectsOf([channelId : {Absent, JInt(3), StrAbc},
                            acls : {Absent, Null, EmptyDict, JList(<<GoodACL, GroupACL>>)},
                            groups : {Absent, SomeGroups}])
            \cup ObjectsOf([channelId : {Str42}, acls : {JList(<<GroupACL, GoodACL>>)},
                            groups : {SomeGroups}, inherit : {Absent, JBool(FALSE)}])

ParamLines ==
    UNION {{[pad |-> 0, doc |-> Obj("1", m, p)] : p \in ParamsOf(m)} : m \in Methods}
    \cup {[pad |-> 0, doc |-> JObj([id |-> "1", method |-> m])] : m \in Methods}

(***************************************************************************)
(* The state after construction: the interpreter is about to call main().  *)
(***************************************************************************)
Init ==
    /\ pc = "config"
    /\ communicator = "None"
    /\ ice = "absent"
    /\ destroys = 0
    /\ meta = "None"
    /\ server = "None"
    /\ stdout = <<>>
    /\ obuf = <<>>
    /\ outFault = 0
    /\ stderr = <<>>
    /\ exitStatus = Running
    /\ lines = <<>>
    /\ cur = NoRequest
    /\ calls = <<>>

(***************************************************************************)
(* Leaving main().                                                         *)
(***************************************************************************)
\* Finally without the call of destroy()
FinallyLeavesOpen(comm, obj) ==
    /\ ice' = obj
    /\ destroys' = destroys

\* lines 190-192, the finally clause, with `comm` the local communicator and
\* `obj` the state of the Ice communicator object when the clause is entered
Finally(comm, obj) ==
    /\ ice' = IF comm # "None" THEN "destroyed" ELSE obj
    /\ destroys' = IF comm # "None" THEN destroys + 1 ELSE destroys

\* lines 195-196: main() is left and the interpreter exits with `status`.  It
\* flushes sys.stdout once more: lines a failed flush left in the buffer are
\* delivered now, or lost with the exit status 120 when this flush fails too
AtExit(st, status) ==
    /\ pc' = "exited"
    /\ obuf' = <<>>
    /\ IF st.obuf = <<>> \/ st.outFault = 0
       THEN /\ stdout' = st.stdout \o st.obuf
            /\ outFault' = st.outFault
            /\ exitStatus' = status
       ELSE /\ stdout' = st.stdout
            /\ outFault' = st.outFault - 1
            /\ exitStatus' = 120

\* Fatal without sys.exit(1): main() returns and the process exits with 0
FatalExitsZero(exc, comm, obj, st) ==
    /\ stderr' = Append(stderr, "[mumble-ice] Fatal: " \o exc.msg)
    /\ Finally(comm, obj)
    /\ communicator' = comm
    /\ AtExit(st, 0)

\* lines 185-192: the fatal handler, then the finally clause, then exit(1);
\* `st` is standard output as the failed statement left it
Fatal(exc, comm, obj, st) ==
    /\ stderr' = Append(stderr, "[mumble-ice] Fatal: " \o exc.msg)
    /\ Finally(comm, obj)
    /\ communicator' = comm
    /\ AtExit(st, 1)

(***************************************************************************)
(* Session establishment, lines 142-160.                                   *)
(***************************************************************************)
\* Falsy with the test for an empty proxy left out
FalsyNever(proxy) == FALSE

\* `not meta`, `not server`: a proxy the remote side did not hand out
Falsy(proxy) == proxy = "None"

\* lines 142-144: int() of MUMBLE_ICE_PORT is evaluated outside the try
\* statement, so a port that is no number ends the process with a traceback
ReadConfig ==
    /\ pc = "config"
    /\ \E port \in {JStr(<<"6", "5", "0", "2">>), JStr(<<"x">>)} :
         IF PyInt(port).ok
         THEN /\ pc' = "create"
              /\ UNCHANGED <<stderr, exitStatus>>
         ELSE /\ pc' = "exited"
              /\ exitStatus' = 1
              /\ stderr' = Append(stderr, "ValueError: " \o PyInt(port).exc.msg)
    /\ UNCHANGED <<communicator, ice, destroys, meta, server, stdout, obuf, outFault,
                   lines, cur, calls>>

\* lines 38-52 and 148: Ice.initialize may raise; with a secret, the implicit
\* context is looked up and may be absent, and then .put raises with the
\* communicator already initialized and main's local still None
CreateCommunicator ==
    /\ pc = "create"
    /\ \E secret \in Secrets, initialized \in BOOLEAN, context \in BOOLEAN :
         IF ~initialized
         THEN /\ Fatal([type |-> "InitializationException", msg |-> "Ice.InitializationException"],
                       "None", "absent", Out)
         ELSE IF secret # "" /\ ~context
         THEN /\ Fatal([type |-> "AttributeError",
                        msg |-> "'NoneType' object has no attribute 'put'"],
                       "None", "open", Out)
         ELSE /\ communicator' = "comm"
              /\ ice' = "open"
              /\ pc' = "proxy"
              /\ UNCHANGED <<destroys, stderr, exitStatus, stdout, obuf, outFault>>
    /\ UNCHANGED <<meta, server, lines, cur, calls>>

\* lines 150-153: stringToProxy and MetaPrx.checkedCast
CheckedCast ==
    /\ pc = "proxy"
    /\ \E answer \in {"meta", "None", "raise"} :
         IF answer = "raise"
         THEN /\ Fatal([type |-> "ConnectionRefusedException",
                        msg |-> "Ice.ConnectionRefusedException"], communicator, ice, Out)
              /\ UNCHANGED meta
         ELSE /\ meta' = answer
              /\ IF Falsy(answer)
                 THEN Fatal([type |-> "RuntimeError",
                             msg |-> "Cannot cast ICE proxy to Murmur.Meta - wrong host/port?"],
                            communicator, ice, Out)
                 ELSE /\ pc' = "getServer"
                      /\ UNCHANGED <<communicator, ice, destroys, stderr, exitStatus,
                                     stdout, obuf, outFault>>
    /\ UNCHANGED <<server, lines, cur, calls>>

\* lines 155-157: meta.getServer(1)
GetServer ==
    /\ pc = "getServer"
    /\ \E answer \in ServerProxies \cup {"None", "raise"} :
         IF answer = "raise"
         THEN /\ Fatal(MurmurException("InvalidSecretException"), communicator, ice, Out)
              /\ UNCHANGED server
         ELSE /\ server' = answer
              /\ IF Falsy(answer)
                 THEN Fatal([type |-> "RuntimeError",
                             msg |-> "getServer(1) returned null - is virtual server 1 running?"],
                            communicator, ice, Out)
                 ELSE /\ pc' = "ready"
                      /\ UNCHANGED <<communicator, ice, destroys, stderr, exitStatus,
                                     stdout, obuf, outFault>>
    /\ UNCHANGED <<meta, lines, cur, calls>>

\* line 160: the readiness line
PrintReady ==
    /\ pc = "ready"
    /\ LET out == PrintFlush(Out, [line |-> ReadyLine, req |-> 0])
       IN  IF out.ok
           THEN /\ stdout' = out.stdout
                /\ obuf' = out.obuf
                /\ outFault' = out.outFault
                /\ pc' = "await"
                /\ UNCHANGED <<communicator, ice, destroys, stderr, exitStatus>>
           ELSE Fatal(WriteError, communicator, ice, out)
    /\ UNCHANGED <<meta, server, lines, cur, calls>>

(***************************************************************************)
(* The command loop, lines 163-183.                                        *)
(***************************************************************************)
\* the effect of lines 176-183 on the process: the streams as the response
\* left them, and the loop continuing, unless writing the error line raised
\* out of the except clause into the fatal handler
Finish(r) ==
    /\ cur' = NoRequest
    /\ IF r.raised
       THEN Fatal(r.exc, communicator, ice, r.out)
       ELSE /\ stdout' = r.out.stdout
            /\ obuf' = r.out.obuf
            /\ outFault' = r.out.outFault
            /\ pc' = "await"
            /\ UNCHANGED <<communicator, ice, destroys, stderr, exitStatus>>

\* CanRead with the next line taken while the remote call is still running
CanReadDuringCall == pc \in {"await", "call"}

\* line 163: the next line is asked for only when the loop body has ended
CanRead == pc = "await"

\* lines 163-175: one line is read; a blank line is skipped; any other line
\* is parsed and dispatched up to the remote invocation, or answered at once
\* when an exception is raised before it.  A request is known by the number
\* of its line
ReadFrom(input, max) ==
    /\ CanRead
    /\ Len(lines) < max
    /\ \E line \in input :
         /\ lines' = Append(lines, line)
         /\ IF strip(line) = Empty
            THEN UNCHANGED <<pc, communicator, ice, destroys, stdout, obuf, outFault,
                             stderr, exitStatus, cur, calls>>
            ELSE LET r == Request(strip(line))
                     n == Len(lines) + 1
                 IN  IF r.outcome.ok
                     THEN /\ pc' = "call"
                          /\ cur' = [n |-> n, req_id |-> r.req_id,
                                     proc |-> r.outcome.v.proc]
                          /\ calls' = Append(calls,
                                             [req |-> n, server |-> server,
                                              proc |-> r.outcome.v.proc,
                                              args |-> r.outcome.v.args])
                          /\ UNCHANGED <<communicator, ice, destroys, stdout, obuf,
                                         outFault, stderr, exitStatus>>
                     ELSE /\ Finish(Respond(Out, n, r.req_id, r.outcome))
                          /\ UNCHANGED calls
    /\ UNCHANGED <<meta, server>>

\* the loop body on the lines of Lines
ReadLine == ReadFrom(Lines, MaxLines)

\* the loop body on the requests of ParamLines
ReadRequest == ReadFrom(ParamLines, MaxRequests)

\* RemoteReturn invoking the remote procedure a second time when it raised
RemoteReturnRetries ==
    /\ pc = "call"
    /\ \/ /\ \E ret \in RemoteReturns(cur.proc) :
               Finish(Respond(Out, cur.n, cur.req_id, Shape(cur.proc, ret)))
          /\ UNCHANGED calls
       \/ \E exc \in RemoteRaises(cur.proc) :
            IF Cardinality({c \in DOMAIN calls : calls[c].req = cur.n}) < 2
            THEN /\ calls' = Append(calls, calls[Len(calls)])
                 /\ UNCHANGED <<pc, communicator, ice, destroys, stdout, obuf, outFault,
                                stderr, exitStatus, cur>>
            ELSE /\ Finish(Respond(Out, cur.n, cur.req_id, [ok |-> FALSE, exc |-> exc]))
                 /\ UNCHANGED calls
    /\ UNCHANGED <<meta, server, lines>>

\* the remote procedure returns or raises; the result is shaped (lines 64,
\* 68, 78, 83, 103, 107-121, 135) and the response written (lines 176-183)
RemoteReturn ==
    /\ pc = "call"
    /\ \/ \E ret \in RemoteReturns(cur.proc) :
            Finish(Respond(Out, cur.n, cur.req_id, Shape(cur.proc, ret)))
       \/ \E exc \in RemoteRaises(cur.proc) :
            Finish(Respond(Out, cur.n, cur.req_id, [ok |-> FALSE, exc |-> exc]))
    /\ UNCHANGED <<meta, server, lines, calls>>

\* EndOfInput not waiting for the remote call in flight
EndOfInputDuringCall ==
    /\ pc \in {"await", "call"}
    /\ Finally(communicator, ice)
    /\ AtExit(Out, 0)
    /\ UNCHANGED <<communicator, meta, server, stderr, lines, cur, calls>>

\* line 163 at end of input: the loop ends, the finally clause runs and
\* main() returns
EndOfInput ==
    /\ pc = "await"
    /\ Finally(communicator, ice)
    /\ AtExit(Out, 0)
    /\ UNCHANGED <<communicator, meta, server, stderr, lines, cur, calls>>

(***************************************************************************)
(* Failures of the standard streams.                                       *)
(***************************************************************************)
\* standard output stops accepting data for the next flush
StdoutFault ==
    /\ pc \in {"ready", "await", "call"}
    /\ outFault < MaxFaults
    /\ outFault' = outFault + 1
    /\ UNCHANGED <<pc, communicator, ice, destroys, meta, server, stdout, obuf, stderr,
                   exitStatus, lines, cur, calls>>

\* line 163: reading the next line raises (undecodable bytes, a read error)
ReadFails ==
    /\ pc = "await"
    /\ Fatal([type |-> "UnicodeDecodeError", msg |-> "'utf-8' codec can't decode byte"],
             communicator, ice, Out)
    /\ UNCHANGED <<meta, server, lines, cur, calls>>

(***************************************************************************)
(* Specifications.  NextProgram is the program with standard input and     *)
(* standard output working; Next adds the failures of the two streams.     *)
(***************************************************************************)
NextProgram ==
    \/ ReadConfig
    \/ CreateCommunicator
    \/ CheckedCast
    \/ GetServer
    \/ PrintReady
    \/ ReadLine
    \/ RemoteReturn
    \/ EndOfInput

Next ==
    \/ NextProgram
    \/ StdoutFault
    \/ ReadFails

Spec == Init /\ [][Next]_vars

SpecProgram == Init /\ [][NextProgram]_vars

\* The program, with standard input and standard output working, on the
\* requests of ParamLines
NextParams ==
    \/ ReadConfig
    \/ CreateCommunicator
    \/ CheckedCast
    \/ GetServer
    \/ PrintReady
    \/ ReadRequest
    \/ RemoteReturn
    \/ EndOfInput

SpecParams == Init /\ [][NextParams]_vars

\* The program with its progress: the process is one thread that runs on, so
\* the readiness line gets printed; standard input delivers its next line or
\* its end (line 163); and a remote call in flight returns or raises
SpecLive ==
    /\ SpecProgram
    /\ WF_vars(PrintReady)
    /\ WF_vars(ReadLine \/ EndOfInput)
    /\ WF_vars(RemoteReturn)

TypeOK ==
    /\ pc \in PcValues
    /\ communicator \in {"None", "comm"}
    /\ ice \in {"absent", "open", "destroyed"}
    /\ destroys \in 0..1
    /\ meta \in {"None", "meta"}
    /\ server \in ServerProxies \cup {"None"}
    /\ outFault \in 0..MaxFaults
    /\ exitStatus \in {Running, 0, 1, 120}
    /\ pc = "await" => obuf = <<>>
    /\ Len(lines) <= MaxLines
    /\ \A i \in 1..Len(lines) : lines[i] \in Lines \cup ParamLines

(***************************************************************************)
(* Vocabulary of the properties.                                           *)
(***************************************************************************)
IsBlank(line) == line.doc = Empty

\* the id a response to `line` must carry: the id of its JSON object, or ""
ExpectedId(line) ==
    IF line.doc.t = "dict" /\ "id" \in DOMAIN line.doc.d THEN line.doc.d.id ELSE ""

\* the non-blank lines read, by line number
Requests == {n \in 1..Len(lines) : ~IsBlank(lines[n])}

\* request n has been handled to the end of the loop body
Handled(n) == n \in Requests /\ ~(pc = "call" /\ n = Len(lines))

IsResponse(item) == "id" \in DOMAIN item.line
IsResult(item) == "result" \in DOMAIN item.line
IsError(item) == "error" \in DOMAIN item.line

\* the positions of standard output that hold a response to request n
ResponsesTo(n) == {p \in DOMAIN stdout : stdout[p].req = n}
ResponsePositions == {p \in DOMAIN stdout : IsResponse(stdout[p])}

\* request n invoked a remote procedure
Called(n) == \E c \in DOMAIN calls : calls[c].req = n

(***************************************************************************)
(* C1: with the standard streams working, every non-blank line read has,   *)
(* once handled, exactly one response line on standard output, whose id is *)
(* the id of the JSON object on that line; before that it has none; and    *)
(* standard output holds no other response line.                           *)
(***************************************************************************)
C1_OneResponsePerLine ==
    /\ \A n \in Requests :
         /\ Cardinality(ResponsesTo(n)) = IF Handled(n) THEN 1 ELSE 0
         /\ \A p \in ResponsesTo(n) :
              IsResponse(stdout[p]) /\ stdout[p].line.id = ExpectedId(lines[n])
    /\ Cardinality(ResponsePositions) = Cardinality({n \in Requests : Handled(n)})

\* a run that answered a request that succeeded, and one the remote side failed
C1_Witness ==
    /\ pc = "exited"
    /\ \E p, q \in ResponsePositions :
         /\ IsResult(stdout[p])
         /\ IsError(stdout[q])
         /\ Called(stdout[q].req)
         /\ ExpectedId(lines[stdout[q].req]) # ""

(***************************************************************************)
(* C2: the lines of standard output are in the order the request lines     *)
(* were read: a response to an earlier line stands before every response   *)
(* to a later line, the readiness line before all of them, and each        *)
(* response carries the id of the line it answers.                         *)
(***************************************************************************)
C2_ResponsesInRequestOrder ==
    /\ \A p, q \in DOMAIN stdout : stdout[p].req < stdout[q].req => p < q
    /\ \A p \in ResponsePositions :
         /\ stdout[p].req \in Requests
         /\ stdout[p].line.id = ExpectedId(lines[stdout[p].req])

\* an earlier request failed and a later one succeeded, both answered
C2_Witness ==
    /\ Len(stdout) = 3
    /\ IsError(stdout[2]) /\ stdout[2].req = 1
    /\ IsResult(stdout[3]) /\ stdout[3].req = 2
    /\ stdout[2].line.id # stdout[3].line.id

(***************************************************************************)
(* C3: processing is strictly sequential.  A line is read only in          *)
(* AwaitingLine, when every request read before has its response written   *)
(* (its remote call, if any, has completed); while a remote call is in     *)
(* flight it is the call of the last line read, and at no time is more     *)
(* than one request without its response.                                  *)
(***************************************************************************)
Unanswered == {n \in Requests : \A i \in DOMAIN (stdout \o obuf) : (stdout \o obuf)[i].req # n}

C3_Sequential ==
    /\ [](/\ Cardinality(Unanswered) <= 1
          /\ pc = "call" => /\ cur.n = Len(lines)
                            /\ Unanswered = {cur.n}
                            /\ calls # <<>> /\ calls[Len(calls)].req = cur.n)
    /\ [][Len(lines') > Len(lines) =>
            /\ pc = "await"
            /\ \A n \in Requests : ResponsesTo(n) # {}]_vars

\* the second line was read, and by then the first had been called and answered
C3_Witness ==
    /\ pc = "call"
    /\ Len(lines) = 2
    /\ Called(1)
    /\ ResponsesTo(1) # {}

(***************************************************************************)
(* C4: the readiness line is written at most once, only with the           *)
(* communicator created, the Meta proxy cast and getServer(1) having       *)
(* returned a proxy, and it is the first line of standard output: no line  *)
(* is read and no response written before it.                              *)
(***************************************************************************)
ReadyPositions == {p \in DOMAIN (stdout \o obuf) : (stdout \o obuf)[p].line = ReadyLine}

C4_ReadyOnceAfterSession ==
    /\ Cardinality(ReadyPositions) <= 1
    /\ ReadyPositions \subseteq {1}
    /\ ReadyPositions # {} =>
         /\ communicator = "comm" /\ ice # "absent"
         /\ meta = "meta"
         /\ server \in ServerProxies
    /\ (lines # <<>> \/ ResponsePositions # {} \/ calls # <<>>) =>
         stdout # <<>> /\ stdout[1].line = ReadyLine

\* the readiness line was written and two requests answered after it
C4_Witness ==
    /\ Len(stdout) = 3
    /\ stdout[1].line = ReadyLine
    /\ ResponsePositions = {2, 3}

(***************************************************************************)
(* C5: when session establishment fails (no communicator, no Meta proxy or *)
(* no server proxy at exit), a diagnostic was written to standard error,   *)
(* the exit status is 1, standard output is empty (no readiness line, no   *)
(* response) and no line was read.                                         *)
(***************************************************************************)
EstablishmentFailed ==
    pc = "exited" /\ (communicator = "None" \/ meta = "None" \/ server = "None")

C5_StartupFailureIsSilent ==
    EstablishmentFailed =>
        /\ stderr # <<>>
        /\ exitStatus = 1
        /\ stdout = <<>> /\ obuf = <<>>
        /\ lines = <<>>
        /\ calls = <<>>

\* getServer(1) failed after the cast succeeded
C5_Witness ==
    /\ pc = "exited"
    /\ communicator = "comm"
    /\ meta = "meta"
    /\ server = "None"
    /\ exitStatus = 1

(***************************************************************************)
(* C6: at process exit a communicator that was initialized has been        *)
(* destroyed, exactly once; it is never left open.                         *)
(***************************************************************************)
C6_ConnectionReleasedOnce ==
    (pc = "exited" /\ ice # "absent") => (ice = "destroyed" /\ destroys = 1)

(***************************************************************************)
(* C7: a request whose method is none of the seven names of the table is   *)
(* answered with the error "Unknown method: <method>" under its id, and no *)
(* remote procedure is invoked for it, whatever its params.                *)
(***************************************************************************)
\* the method of a request object, as req.get('method', '') reads it
MethodOf(line) == IF "method" \in DOMAIN line.doc.d THEN line.doc.d.method ELSE ""

UnknownMethodRequests ==
    {n \in Requests : lines[n].doc.t = "dict" /\ MethodOf(lines[n]) \notin Methods}

C7_UnknownMethodIsLocalError ==
    \A n \in UnknownMethodRequests :
        /\ ~Called(n)
        /\ Cardinality(ResponsesTo(n)) = 1
        /\ \A p \in ResponsesTo(n) :
             stdout[p].line = [id |-> ExpectedId(lines[n]),
                               error |-> "Unknown method: " \o MethodOf(lines[n])]

\* "frobnicate" was asked for with params that are no object, and answered
C7_Witness ==
    \E n \in UnknownMethodRequests :
        /\ MethodOf(lines[n]) = "frobnicate"
        /\ lines[n].doc.d.params = Null
        /\ \E p \in ResponsesTo(n) : stdout[p].line.error = "Unknown method: frobnicate"

(***************************************************************************)
(* C8: a failure of one request does not end the loop and does not touch   *)
(* the session.  The step that writes an error response leaves the loop in *)
(* AwaitingLine with communicator, meta, server and the connection as they *)
(* were; the loop is left only at end of input; every remote procedure is  *)
(* invoked on the server proxy obtained at startup.                        *)
(***************************************************************************)
ErrorWritten == Len(stdout') > Len(stdout) /\ IsError(stdout'[Len(stdout')])

C8_FailureKeepsSession ==
    /\ [](\A c \in DOMAIN calls : calls[c].server = server /\ server \in ServerProxies)
    /\ [][ErrorWritten =>
            /\ pc' = "await"
            /\ ice = "open"
            /\ UNCHANGED <<communicator, ice, destroys, meta, server, exitStatus>>]_vars
    /\ [][(pc \in {"await", "call"} /\ pc' = "exited") =>
            (pc = "await" /\ exitStatus' = 0 /\ stdout' = stdout)]_vars

\* the first request failed at the remote side with an exception that is no
\* Murmur exception, and the second was dispatched on the same server proxy
C8_Witness ==
    /\ Len(calls) = 2
    /\ \E p \in ResponsesTo(1) : stdout[p].line.error = ConnectionLost.msg
    /\ calls[2].req = 2
    /\ calls[2].server = calls[1].server

(***************************************************************************)
(* C9: every response line holds `id` and exactly one of `result` and      *)
(* `error`, and no request has both a result line and an error line.       *)
(***************************************************************************)
C9_ResultXorError ==
    /\ \A p \in ResponsePositions :
         DOMAIN stdout[p].line \in {{"id", "result"}, {"id", "error"}}
    /\ \A n \in Requests :
         ~(\E p, q \in ResponsesTo(n) : IsResult(stdout[p]) /\ IsError(stdout[q]))

(***************************************************************************)
(* C10: a line that is empty or only blanks changes nothing but the        *)
(* position in the input: the step that reads it writes no line, invokes   *)
(* no remote procedure and leaves the loop and the session as they were,   *)
(* so the responses to the lines around it are what they are without it.   *)
(***************************************************************************)
BlankRead == Len(lines') = Len(lines) + 1 /\ IsBlank(lines'[Len(lines')])

C10_BlankLineIgnored ==
    /\ [](\A n \in 1..Len(lines) : IsBlank(lines[n]) => (ResponsesTo(n) = {} /\ ~Called(n)))
    /\ [][BlankRead =>
            UNCHANGED <<pc, communicator, ice, destroys, meta, server, stdout, obuf,
                        outFault, stderr, exitStatus, cur, calls>>]_vars

\* a line of blanks was read, then a request, which was answered as the
\* first response
C10_Witness ==
    /\ Len(lines) = 2
    /\ lines[1] = [pad |-> 1, doc |-> Empty]
    /\ Len(stdout) = 2
    /\ stdout[2].req = 2
    /\ IsResult(stdout[2])

(***************************************************************************)
(* C11: the error text of a response is fixed by the kind of the exception *)
(* it reports: "Murmur: <class name>" for InvalidUserException and         *)
(* InvalidChannelException, the check-the-secret text for                  *)
(* InvalidSecretException, and str() of any other exception; and a request *)
(* has at most one error line.                                             *)
(***************************************************************************)
Written == stdout \o obuf

ErrorPositions == {p \in DOMAIN Written : IsError(Written[p])}

C11_ErrorTextByKind ==
    /\ \A p \in ErrorPositions :
         LET exc == Written[p].exc
             text == Written[p].line.error
         IN  /\ exc.type = "InvalidUserException" => text = "Murmur: InvalidUserException"
             /\ exc.type = "InvalidChannelException" => text = "Murmur: InvalidChannelException"
             /\ exc.type = "InvalidSecretException" =>
                  text = "Murmur: InvalidSecret - check MUMBLE_ICE_SECRET"
             /\ exc.type \notin {"InvalidUserException", "InvalidChannelException",
                                 "InvalidSecretException"} => text = exc.msg
    /\ \A p, q \in ErrorPositions : Written[p].req = Written[q].req => p = q

\* scenario D, and a request that failed locally: getACL answered
\* "Murmur: InvalidChannelException" under id "4", and an error line with the
\* text of a KeyError
C11_Witness ==
    /\ \E p \in DOMAIN stdout :
         stdout[p].line = [id |-> "4", error |-> "Murmur: InvalidChannelException"]
    /\ \E p \in DOMAIN stdout :
         /\ IsError(stdout[p])
         /\ stdout[p].exc.type = "KeyError"
         /\ stdout[p].line.error = "'password'"

(***************************************************************************)
(* C12: a request line that is a JSON object without `id` or without       *)
(* `method` is answered, once handled, with an error line and with no      *)
(* result line; the id of the line is "" when the object has none.         *)
(***************************************************************************)
LacksIdOrMethod(line) ==
    line.doc.t = "dict" /\ ("id" \notin DOMAIN line.doc.d \/ "method" \notin DOMAIN line.doc.d)

C12_MissingFieldIsError ==
    \A n \in Requests :
        (LacksIdOrMethod(lines[n]) /\ Handled(n)) =>
            /\ ResponsesTo(n) # {}
            /\ \A p \in ResponsesTo(n) :
                 /\ IsError(stdout[p]) /\ ~IsResult(stdout[p])
                 /\ stdout[p].line.id = ExpectedId(lines[n])

(***************************************************************************)
(* C13: a non-blank line that is no JSON object (no JSON at all, or a JSON *)
(* value of another type) has, with the standard streams working, exactly  *)
(* one response, an error line with the id "", and no remote procedure is  *)
(* invoked for it; the step that reads it leaves the loop awaiting the     *)
(* next line with the session as it was.                                   *)
(***************************************************************************)
IsObject(line) == line.doc.t = "dict"

Unparseable == {n \in Requests : ~IsObject(lines[n])}

UnparseableRead ==
    /\ Len(lines') = Len(lines) + 1
    /\ ~IsBlank(lines'[Len(lines')])
    /\ ~IsObject(lines'[Len(lines')])

C13_UnparseableLine ==
    /\ [](\A n \in Unparseable :
            /\ ~Called(n)
            /\ Cardinality(ResponsesTo(n)) = 1
            /\ \A p \in ResponsesTo(n) :
                 /\ DOMAIN stdout[p].line = {"id", "error"}
                 /\ stdout[p].line.id = "")
    /\ [][UnparseableRead =>
            /\ pc' = "await"
            /\ Len(stdout') = Len(stdout) + 1
            /\ UNCHANGED <<communicator, ice, destroys, meta, server, stderr,
                           exitStatus, calls>>]_vars

\* a text that is no JSON and a JSON list were read and answered, and the
\* loop awaits the next line
C13_Witness ==
    /\ pc = "await"
    /\ Len(lines) = 2
    /\ lines[1].doc = Garbage
    /\ lines[2].doc.t = "list"
    /\ Len(stdout) = 3
    /\ stdout[2].line.error = "Expecting value: line 1 column 1 (char 0)"
    /\ stdout[3].line = [id |-> "", error |-> "'list' object has no attribute 'get'"]

(***************************************************************************)
(* C14: from every state with the session established (getServer(1) has    *)
(* returned a proxy and the process runs), with standard input reaching    *)
(* its end and every remote call returning or raising, the process         *)
(* eventually has destroyed the communicator, once, and exited with        *)
(* status 0, whatever responses were written.                              *)
(***************************************************************************)
SessionEstablished == pc \in {"ready", "await", "call"}

ExitedClean ==
    /\ pc = "exited"
    /\ exitStatus = 0
    /\ ice = "destroyed"
    /\ destroys = 1

C14_CleanExitAtEndOfInput == SessionEstablished ~> ExitedClean

\* the process exited with 0 after two requests that were both answered with
\* an error, one of them raised by the remote side
C14_Witness ==
    /\ ExitedClean
    /\ Len(stdout) = 3
    /\ IsError(stdout[2]) /\ IsError(stdout[3])
    /\ Called(1)

(***************************************************************************)
(* C15: the fatal handler is entered only from session establishment: the  *)
(* step that writes the diagnostic to standard error starts at a position  *)
(* before the command loop, with no line read and nothing written to       *)
(* standard output, neither the readiness line nor a response.             *)
(***************************************************************************)
Establishment == {"config", "create", "proxy", "getServer", "ready"}

FatalStep == Len(stderr') > Len(stderr)

C15_FatalOnlyFromEstablishment ==
    [][FatalStep =>
          /\ pc \in Establishment
          /\ lines = <<>>
          /\ stdout = <<>> /\ obuf = <<>>]_vars

(***************************************************************************)
(* C16: a request to one of the seven methods whose params lack a          *)
(* parameter the operation table lists as required invokes no remote       *)
(* procedure and is answered, once handled, with one error line.           *)
(***************************************************************************)
RequiredParams(method) ==
    CASE method = "registerUser" -> {"username", "password"}
      [] method \in {"unregisterUser", "getRegistration"} -> {"userId"}
      [] method = "updateRegistration" -> {"userId", "updates"}
      [] method = "setACL" -> {"channelId", "acls"}
      [] method = "getACL" -> {"channelId"}
      [] method = "getRegisteredUsers" -> {}

\* the keys of the params object of a request object; none when it has no params
ParamKeys(line) ==
    IF "params" \in DOMAIN line.doc.d /\ line.doc.d.params.t = "dict"
    THEN DOMAIN line.doc.d.params.d
    ELSE {}

OmitsRequired(line) ==
    /\ IsObject(line)
    /\ MethodOf(line) \in Methods
    /\ "params" \in DOMAIN line.doc.d => line.doc.d.params.t = "dict"
    /\ RequiredParams(MethodOf(line)) \ ParamKeys(line) # {}

C16_OmittedParamIsError ==
    \A n \in Requests :
        OmitsRequired(lines[n]) =>
            /\ ~Called(n)
            /\ Handled(n) => /\ Cardinality(ResponsesTo(n)) = 1
                             /\ \A p \in ResponsesTo(n) : IsError(stdout[p])

(***************************************************************************)
(* C17: every remote setACL is invoked with an ACL list as long as the     *)
(* `acls` array of its request, whose k-th element is the Murmur.ACL built *)
(* from the k-th entry of the array, and with an empty list of group       *)
(* definitions, also when the request holds a `groups` parameter.          *)
(***************************************************************************)
SetACLCalls == {c \in DOMAIN calls : calls[c].proc = "setACL"}

ParamsOfCall(c) == lines[calls[c].req].doc.d.params.d

\* the entries of the `acls` array of the request of call c; none when the
\* request holds no array
GivenACLs(c) ==
    IF "acls" \in DOMAIN ParamsOfCall(c) /\ ParamsOfCall(c).acls.t = "list"
    THEN ParamsOfCall(c).acls.l
    ELSE <<>>

C17_SetACLKeepsOrder ==
    \A c \in SetACLCalls :
        /\ Len(calls[c].args.acls) = Len(GivenACLs(c))
        /\ \A k \in 1..Len(GivenACLs(c)) :
             calls[c].args.acls[k] = BuildACL(GivenACLs(c)[k]).v
        /\ calls[c].args.groups = <<>>

\* setACL was invoked for a request with two different entries and a `groups`
\* parameter
C17_Witness ==
    \E c \in SetACLCalls :
        /\ Len(GivenACLs(c)) = 2
        /\ calls[c].args.acls[1] # calls[c].args.acls[2]
        /\ calls[c].args.acls[1].group = "a"
        /\ calls[c].args.acls[2].allow = 42
        /\ "groups" \in DOMAIN ParamsOfCall(c)

(***************************************************************************)
(* C18: no request has more than one remote invocation, and a request with *)
(* a result line has exactly one; a remote procedure is invoked only in    *)
(* the step that reads the request's line, once, so never again after the  *)
(* request failed.                                                         *)
(***************************************************************************)
CallsOf(n) == {c \in DOMAIN calls : calls[c].req = n}

HasResult(n) == \E p \in DOMAIN Written : Written[p].req = n /\ IsResult(Written[p])

C18_OneInvocationPerRequest ==
    /\ [](/\ \A c \in DOMAIN calls : calls[c].req \in Requests
          /\ \A n \in Requests :
               /\ Cardinality(CallsOf(n)) <= 1
               /\ HasResult(n) => Cardinality(CallsOf(n)) = 1)
    /\ [][calls' # calls =>
            /\ Len(lines') = Len(lines) + 1
            /\ Len(calls') = Len(calls) + 1
            /\ SubSeq(calls', 1, Len(calls)) = calls
            /\ calls'[Len(calls')].req = Len(lines')]_vars

\* the first request was invoked once and failed at the remote side; the
\* second was invoked once and answered with a result
C18_Witness ==
    /\ Len(calls) = 2
    /\ calls[1].req = 1 /\ calls[2].req = 2
    /\ \E p \in ResponsesTo(1) : IsError(stdout[p])
    /\ HasResult(2)
    /\ pc = "exited"

(***************************************************************************)
(* C19: the id parameter of a request (userId of unregisterUser,            *)
(* updateRegistration and getRegistration; channelId of setACL and getACL) *)
(* is converted before the remote procedure is invoked: when int() rejects *)
(* it, or rejects userid, allow or deny of an entry of a setACL request,   *)
(* no remote procedure is invoked and the request is answered with one     *)
(* error line; when the procedure is invoked, it gets the integer int()    *)
(* yields, 42 for the string "42".                                         *)
(***************************************************************************)
IdParam(method) ==
    CASE method \in {"unregisterUser", "updateRegistration", "getRegistration"} -> "userId"
      [] method \in {"setACL", "getACL"} -> "channelId"

\* the requests that hold an id parameter
IdRequests ==
    {n \in Requests :
        /\ IsObject(lines[n])
        /\ MethodOf(lines[n]) \in {"unregisterUser", "updateRegistration", "getRegistration",
                                   "setACL", "getACL"}
        /\ IdParam(MethodOf(lines[n])) \in ParamKeys(lines[n])}

IdGiven(n) == lines[n].doc.d.params.d[IdParam(MethodOf(lines[n]))]

\* an entry of the `acls` array of request n holds a userid, allow or deny
\* that int() rejects
BadEntry(n) ==
    /\ IsObject(lines[n]) /\ MethodOf(lines[n]) = "setACL"
    /\ "acls" \in ParamKeys(lines[n])
    /\ lines[n].doc.d.params.d.acls.t = "list"
    /\ \E k \in DOMAIN lines[n].doc.d.params.d.acls.l :
         LET a == lines[n].doc.d.params.d.acls.l[k]
         IN  a.t = "dict" /\ \E f \in {"userid", "allow", "deny"} \cap DOMAIN a.d : ~PyInt(a.d[f]).ok

ErrorOnly(n) ==
    /\ ~Called(n)
    /\ Handled(n) => /\ Cardinality(ResponsesTo(n)) = 1
                     /\ \A p \in ResponsesTo(n) : IsError(stdout[p])

C19_CoercionBeforeInvocation ==
    /\ \A n \in IdRequests :
         /\ ~PyInt(IdGiven(n)).ok => ErrorOnly(n)
         /\ \A c \in CallsOf(n) :
              /\ calls[c].args.id = PyInt(IdGiven(n)).v
              /\ IdGiven(n) = JStr(<<"4", "2">>) => calls[c].args.id = 42
    /\ \A n \in Requests : BadEntry(n) => ErrorOnly(n)

\* getRegistration with the userId "abc" was answered with the error of int()
\* and nothing was invoked
C19_Witness ==
    /\ 1 \in IdRequests
    /\ MethodOf(lines[1]) = "getRegistration"
    /\ IdGiven(1) = JStr(<<"a", "b", "c">>)
    /\ calls = <<>>
    /\ \E p \in ResponsesTo(1) :
         stdout[p].line.error = "invalid literal for int() with base 10: 'abc'"

(***************************************************************************)
(* C20: a remote procedure is invoked only while the session is live: the  *)
(* communicator is open and not destroyed, getServer(1) has returned a     *)
(* proxy and the readiness line is the first line of standard output; and  *)
(* the communicator is destroyed only when every request read has its      *)
(* response on standard output, after which nothing is invoked.            *)
(***************************************************************************)
SessionLive ==
    /\ communicator = "comm" /\ ice = "open" /\ destroys = 0
    /\ server \in ServerProxies
    /\ stdout # <<>> /\ stdout[1].line = ReadyLine

Destroyed == destroys' > destroys

C20_CallsOnlyWhileLive ==
    /\ [][calls' # calls => SessionLive /\ ice' = "open"]_vars
    /\ [][Destroyed => /\ calls' = calls
                       /\ \A n \in Requests : ResponsesTo(n) # {}]_vars
    /\ [][ice = "destroyed" => calls' = calls /\ lines' = lines]_vars

\* the communicator was destroyed after two requests were invoked and answered
C20_Witness ==
    /\ ice = "destroyed"
    /\ Len(calls) = 2
    /\ ResponsesTo(1) # {} /\ ResponsesTo(2) # {}
    /\ calls[2].req = 2

====
